---- MODULE Spec2Model ----
(***************************************************************************)
(* Model of src/src/solution.py: the scavenger-hunt client.                *)
(*                                                                         *)
(*   get_next_secret(path)  recursive generator walking the resource tree  *)
(*   request_next(path)     GET with the global `headers`, one refresh of  *)
(*                          the "Session" header and one retry on failure  *)
(*   normalize_keys(data)   lower-cases the keys of a parsed JSON object   *)
(*   run()                  joins the generator's secrets and exits        *)
(*                                                                         *)
(* The HTTP server is the environment: it holds a resource tree, answers   *)
(* every GET with a status and a JSON body, and may fail any request.      *)
(***************************************************************************)
EXTENDS Integers, Sequences, FiniteSets, TLC

(***************************************************************************)
(* Bounds of the model.                                                    *)
(***************************************************************************)
\* longest `next` list the server's tree holds
MaxNext == 2
\* how many requests of one run the server answers with a failure
MaxFailures == 2
\* how many requests of one run are explored
MaxRequests == 6
\* how many generators of get_next_secret the interpreter lets nest; the
\* source sets no limit of its own, CPython's default is 1000 frames
RecursionLimit == 4
\* longest key, and most items, of a mapping handed to normalize_keys alone
MaxKeyLen == 2
MaxItems == 2

(***************************************************************************)
(* JSON values.  A Python value is a record that always has the same three *)
(* fields, so that values of different types can be compared.              *)
(***************************************************************************)
None == [kind |-> "none", str |-> "", list |-> <<>>]

Str(s) == [kind |-> "str", str |-> s, list |-> <<>>]

List(l) == [kind |-> "list", str |-> "", list |-> l]

\* Python truthiness (`not x`): None, "" and [] are false.
Truthy(v) ==
    CASE v.kind = "none" -> FALSE
      [] v.kind = "str"  -> v.str # ""
      [] v.kind = "list" -> v.list # <<>>

(***************************************************************************)
(* Strings that are keys are sequences of characters, so that str.lower()  *)
(* is computed character by character.                                     *)
(***************************************************************************)
UpperChars == {"S", "E", "C", "R", "T", "N", "X", "O", "A"}

LowerChars == {"s", "e", "c", "r", "t", "n", "x", "o", "a"}

OtherChars == {"_"}

char_lower(c) ==
    CASE c = "S" -> "s" [] c = "E" -> "e" [] c = "C" -> "c"
      [] c = "R" -> "r" [] c = "T" -> "t" [] c = "N" -> "n"
      [] c = "X" -> "x" [] c = "O" -> "o" [] c = "A" -> "a"
      [] OTHER -> c

char_upper(c) ==
    CASE c = "s" -> "S" [] c = "e" -> "E" [] c = "c" -> "C"
      [] c = "r" -> "R" [] c = "t" -> "T" [] c = "n" -> "N"
      [] c = "x" -> "X" [] c = "o" -> "O" [] c = "a" -> "A"
      [] OTHER -> c

\* a mutant of str_lower: lower-cases the first character only
str_lower_first_only(k) ==
    [i \in 1..Len(k) |-> IF i = 1 THEN char_lower(k[i]) ELSE k[i]]

\* str.lower()
str_lower(k) == [i \in 1..Len(k) |-> char_lower(k[i])]

\* the keys the program looks up
K_secret == <<"s", "e", "c", "r", "e", "t">>

K_next == <<"n", "e", "x", "t">>

K_error == <<"e", "r", "r", "o", "r">>

(***************************************************************************)
(* A Python dict is the sequence of its items <<key, value>> in insertion  *)
(* order, no key twice.                                                    *)
(***************************************************************************)
dict_keys(d) == {d[i][1] : i \in 1..Len(d)}

\* `k in d`
dict_has(d, k) == k \in dict_keys(d)

\* d[k], for a key that is present
dict_item(d, k) == d[CHOOSE i \in 1..Len(d) : d[i][1] = k][2]

\* d.get(k): None when the key is absent
dict_get(d, k) == IF dict_has(d, k) THEN dict_item(d, k) ELSE None

\* d[k] = v: replaces the value of a present key in place, else appends
dict_set(d, k, v) ==
    IF dict_has(d, k)
    THEN [i \in 1..Len(d) |-> IF d[i][1] = k THEN <<k, v>> ELSE d[i]]
    ELSE Append(d, <<k, v>>)

RECURSIVE normalize_from(_, _, _)
\* the dict comprehension of normalize_keys, item i onwards, acc built so far
normalize_from(data, i, acc) ==
    IF i > Len(data)
    THEN acc
    ELSE normalize_from(data, i + 1,
                        dict_set(acc, str_lower(data[i][1]), data[i][2]))

\* a mutant of normalize_keys: returns the mapping as it is
normalize_keys_identity(data) == data

\* normalize_keys(data): {k.lower(): v for k, v in data.items()}
normalize_keys(data) == normalize_from(data, 1, <<>>)

(***************************************************************************)
(* The server: a resource tree, path |-> JSON object.                      *)
(***************************************************************************)
Paths == {"start", "a", "b", "c"}

\* the paths a `next` list of path p may name
ChildPaths(p) ==
    CASE p = "start" -> {"a", "b", "c"}
      [] p = "a"     -> {"b", "c"}
      [] p = "b"     -> {"a", "c"}
      [] p = "c"     -> {}

\* the secret a leaf at path p holds
SecretOf(p) ==
    CASE p = "start" -> "S" [] p = "a" -> "A" [] p = "b" -> "B" [] p = "c" -> "C"

SeqsUpTo(S, n) == UNION {[1..m -> S] : m \in 0..n}

\* the JSON objects the server may hold at path p, keys in lower case:
\* {"secret": s}, {"secret": s, "next": [..]}, {}, {"next": [..]}
NodeBodies(p) ==
    {<< <<K_secret, Str(SecretOf(p))>> >>}
    \cup {<< <<K_secret, Str(SecretOf(p))>>, <<K_next, List(l)>> >> :
             l \in SeqsUpTo(ChildPaths(p), 1) \ {<<>>}}
    \cup {<<>>}
    \cup {<< <<K_next, List(l)>> >> : l \in SeqsUpTo(ChildPaths(p), MaxNext)}


\* the letter case the server writes a key in
KeyStyles == {"lower", "Capital", "UPPER"}

restyle_key(k, style) ==
    CASE style = "lower"   -> k
      [] style = "Capital" -> [i \in 1..Len(k) |-> IF i = 1 THEN char_upper(k[i]) ELSE k[i]]
      [] style = "UPPER"   -> [i \in 1..Len(k) |-> char_upper(k[i])]

restyle(d, style) == [i \in 1..Len(d) |-> <<restyle_key(d[i][1], style), d[i][2]>>]

\* the bodies of the server's failure responses
FailureBodies ==
    {<<>>, << <<K_error, Str("")>> >>}
    \cup {restyle(<< <<K_error, Str("denied")>> >>, style) : style \in KeyStyles}

\* the credentials get-session hands out, in this order
SessionTokens == <<"t1", "t2", "t3", "t4", "t5", "t6">>

(***************************************************************************)
(* The program's state.                                                    *)
(***************************************************************************)
VARIABLES
    tree,            \* the server's resource tree, as far as it was served
    served,          \* the paths whose object the server has served
    headers,         \* the global `headers` dict (line 49)
    stack,           \* the nested get_next_secret generators, outermost first
    pc,              \* where the program is
    is_retry,        \* request_next's parameter
    response,        \* `response` of the running request_next call
    outer_response,  \* `response` of the request_next call that is retrying
    response_data,   \* `response_data` of get_next_secret (line 63)
    out,             \* the secrets the outermost generator has yielded so far
    stdout,          \* the secrets run() has printed
    exit_status,     \* the process's exit status, once exited
    err,             \* the failure that was raised, once raised
    sent,            \* every request sent so far: url and headers
    failures         \* how many requests the server has failed so far

(***************************************************************************)
(* err names a failure by the place that raises it, which is also the      *)
(* message log_response_error logs just before:                            *)
(*   "MissingNextKey"         line 78,  'Missing "next" key in response'   *)
(*   "SessionRefreshFailure"  line 110, 'Unable to refresh "Session" ...'  *)
(*   "MalformedErrorResponse" line 119, '"error" key missing from ...'     *)
(*   "KeyError"               lines 108 and 117, headers["Session"] read   *)
(*                            while the dict has no such key: raised       *)
(*                            before the message is logged                 *)
(*   "TransportFailure"       lines 95, 96 and 122, raised by requests     *)
(*   "RecursionError"         line 87, raised by the interpreter when the  *)
(*                            generators nest deeper than its limit        *)
(* The statements `raise (type, message, traceback)` raise a tuple, which  *)
(* Python 3 turns into a TypeError; run() catches it like any Exception.   *)
(***************************************************************************)
vars == <<tree, served, headers, stack, pc, is_retry, response, outer_response,
          response_data, out, stdout, exit_status, err, sent, failures>>

\* urljoin(args.base, path); applied to an absolute URL it returns that URL,
\* so the second application on line 95 changes nothing
create_url(path) == <<"base", path>>

NoResponse == [status |-> "none", json |-> <<>>]

\* the exit status of a process that has not exited: no status run() exits with
NotExited == -1

\* a generator of get_next_secret(path) before its response is classified
Frame(path) == [path |-> path, next_list |-> <<>>, idx |-> 0]

Top == stack[Len(stack)]

Pop(s) == SubSeq(s, 1, Len(s) - 1)

\* how many get-session requests were sent
Refreshes == Cardinality({i \in 1..Len(sent) : sent[i].url = create_url("get-session")})

Init ==
    /\ tree = [p \in Paths |-> <<>>]
    /\ served = {}
    /\ headers = <<>>
    /\ stack = <<Frame("start")>>
    /\ pc = "request"
    /\ is_retry = FALSE
    /\ response = NoResponse
    /\ outer_response = NoResponse
    /\ response_data = <<>>
    /\ out = <<>>
    /\ stdout = ""
    /\ exit_status = NotExited
    /\ err = "none"
    /\ sent = <<>>
    /\ failures = 0

\* a mutant of NodeRequestHeaders: the node request is sent without headers
NodeRequestHeaders_none(hdrs) == <<>>

\* request_next, line 95: requests.get(url, headers=headers)
NodeRequestHeaders(hdrs) == hdrs

\* a mutant of SessionRequestHeaders: get-session is sent with the headers
SessionRequestHeaders_global(hdrs) == hdrs

\* request_next, line 122: requests.get(create_url("get-session"))
SessionRequestHeaders(hdrs) == <<>>

\* a mutant of DepthExceeded: the interpreter lets the generators nest
\* without limit
DepthExceeded_never(s) == FALSE

\* get_next_secret, line 87: every generator runs inside the loop of the
\* one that started it, so the frames of all of them are on the
\* interpreter's stack while the innermost runs
DepthExceeded(s) == Len(s) > RecursionLimit

(***************************************************************************)
(* request_next, lines 95-96: GET the node with the global headers.  The   *)
(* server answers with the node's object and a success status, or with a   *)
(* failure status and some failure body, or the request raises (no         *)
(* connection, a body that is no JSON object).  The object of a path is    *)
(* fixed the first time the server serves it and is the same ever after.   *)
(***************************************************************************)
RequestNext ==
    /\ pc = "request"
    /\ ~DepthExceeded(stack)
    /\ Len(sent) < MaxRequests
    /\ sent' = Append(sent, [url |-> create_url(Top.path),
                             headers |-> NodeRequestHeaders(headers)])
    /\ \/ \E style \in KeyStyles :
          \E body \in IF Top.path \in served THEN {tree[Top.path]}
                                            ELSE NodeBodies(Top.path) :
             /\ tree' = [tree EXCEPT ![Top.path] = body]
             /\ served' = served \cup {Top.path}
             /\ response' = [status |-> "ok", json |-> restyle(body, style)]
             /\ pc' = "status"
             /\ UNCHANGED <<failures, err>>
       \/ \E body \in FailureBodies :
             /\ failures < MaxFailures
             /\ response' = [status |-> "failure", json |-> body]
             /\ pc' = "status"
             /\ failures' = failures + 1
             /\ UNCHANGED <<tree, served, err>>
       \/ /\ failures < MaxFailures
          /\ failures' = failures + 1
          /\ err' = "TransportFailure"
          /\ pc' = "raised"
          /\ UNCHANGED <<tree, served, response>>
    /\ UNCHANGED <<headers, stack, is_retry, outer_response, response_data, out,
                   stdout, exit_status>>

\* a mutant of StatusOutcome: the retry guard is missing
StatusOutcome_no_retry_guard(resp, retry, hdrs) ==
    IF resp.status = "ok" THEN "return"
    ELSE IF ~Truthy(dict_get(resp.json, K_error))
         THEN IF dict_has(hdrs, "Session") THEN "MalformedErrorResponse" ELSE "KeyError"
         ELSE "refresh"

\* a mutant of StatusOutcome: the error-key guard is missing
StatusOutcome_no_error_guard(resp, retry, hdrs) ==
    IF resp.status = "ok" THEN "return"
    ELSE IF retry
         THEN IF dict_has(hdrs, "Session") THEN "SessionRefreshFailure" ELSE "KeyError"
         ELSE "refresh"

\* a mutant of StatusOutcome: the error-key guard stands before the retry guard
StatusOutcome_error_guard_first(resp, retry, hdrs) ==
    IF resp.status = "ok" THEN "return"
    ELSE IF ~Truthy(dict_get(resp.json, K_error))
         THEN IF dict_has(hdrs, "Session") THEN "MalformedErrorResponse" ELSE "KeyError"
    ELSE IF retry
         THEN IF dict_has(hdrs, "Session") THEN "SessionRefreshFailure" ELSE "KeyError"
         ELSE "refresh"

\* request_next, lines 99-126: what the status and the body lead to.  The
\* arguments of log_response_error are evaluated before it logs the message:
\* headers["Session"] raises KeyError while the dict has no such key.
StatusOutcome(resp, retry, hdrs) ==
    IF resp.status = "ok" THEN "return"
    ELSE IF retry
         THEN IF dict_has(hdrs, "Session") THEN "SessionRefreshFailure" ELSE "KeyError"
    ELSE IF ~Truthy(dict_get(resp.json, K_error))
         THEN IF dict_has(hdrs, "Session") THEN "MalformedErrorResponse" ELSE "KeyError"
         ELSE "refresh"

\* a mutant of ReturnValue: line 126 without its `return`, so that the call
\* that retried goes on to line 130 and returns its own, failed response
ReturnValue_no_return(outer, inner) == IF outer = NoResponse THEN inner ELSE outer

\* request_next, lines 126 and 130: the response handed to get_next_secret
\* is the one of the innermost call
ReturnValue(outer, inner) == inner

\* a mutant of DefaultIsRetry: the flag of the last fetch stays
DefaultIsRetry_sticky(retry) == retry

\* request_next, line 91, called on line 61 without the flag: every fetch
\* of get_next_secret starts with is_retry=False, whatever the last one did
DefaultIsRetry(retry) == FALSE

(***************************************************************************)
(* request_next, lines 99-130: raise_for_status and the guards.            *)
(***************************************************************************)
RaiseForStatus ==
    /\ pc = "status"
    /\ LET o == StatusOutcome(response, is_retry, headers) IN
         \/ /\ o = "return"
            /\ response' = ReturnValue(outer_response, response)
            /\ outer_response' = NoResponse
            /\ is_retry' = DefaultIsRetry(is_retry)
            /\ pc' = "classify"
            /\ UNCHANGED err
         \/ /\ o = "refresh"
            /\ pc' = "refresh"
            /\ UNCHANGED <<response, outer_response, is_retry, err>>
         \/ /\ o \notin {"return", "refresh"}
            /\ err' = o
            /\ pc' = "raised"
            /\ UNCHANGED <<response, outer_response, is_retry>>
    /\ UNCHANGED <<tree, served, headers, stack, response_data, out, stdout,
                   exit_status, sent, failures>>

(***************************************************************************)
(* request_next, lines 121-126: GET get-session without headers, store the *)
(* body as headers["Session"], call request_next(path, is_retry=True).     *)
(***************************************************************************)
GetSession ==
    /\ pc = "refresh"
    /\ Len(sent) < MaxRequests
    /\ sent' = Append(sent, [url |-> create_url("get-session"),
                             headers |-> SessionRequestHeaders(headers)])
    /\ \/ /\ Refreshes < Len(SessionTokens)
          /\ headers' = dict_set(headers, "Session", Str(SessionTokens[Refreshes + 1]))
          /\ outer_response' = response
          /\ response' = NoResponse
          /\ is_retry' = TRUE
          /\ pc' = "request"
          /\ UNCHANGED <<failures, err>>
       \/ /\ failures < MaxFailures
          /\ failures' = failures + 1
          /\ err' = "TransportFailure"
          /\ pc' = "raised"
          /\ UNCHANGED <<headers, response, outer_response, is_retry>>
    /\ UNCHANGED <<tree, served, stack, response_data, out, stdout, exit_status>>

\* a mutant of Classify: an empty `next` list counts as a branch
Classify_key_presence(data) ==
    IF dict_has(data, K_secret) THEN "leaf"
    ELSE IF ~dict_has(data, K_next) THEN "malformed"
    ELSE "branch"

\* a mutant of Classify: `next` is looked at before `secret`
Classify_next_first(data) ==
    IF Truthy(dict_get(data, K_next)) THEN "branch"
    ELSE IF dict_has(data, K_secret) THEN "leaf"
    ELSE "malformed"

\* get_next_secret, lines 66, 72, 80: the three guards
Classify(data) ==
    IF dict_has(data, K_secret) THEN "leaf"
    ELSE IF ~Truthy(dict_get(data, K_next)) THEN "malformed"
    ELSE "branch"

\* a mutant of ResponseData: the traversal reads the body as it came
ResponseData_raw(resp) == resp.json

\* get_next_secret, line 63: normalize_keys(response.json())
ResponseData(resp) == normalize_keys(resp.json)

\* a mutant of NextIndex: the loop takes the children from the last one down
NextIndex_reversed(next_list, visited) == Len(next_list) - visited

\* get_next_secret, line 85: the loop takes the children in the list's order
NextIndex(next_list, visited) == visited + 1

RECURSIVE Unwind_no_revisit(_)
\* a mutant of Unwind: a child whose path was served before is skipped
Unwind_no_revisit(s) ==
    IF s = <<>> THEN <<>>
    ELSE LET f == s[Len(s)] IN
         IF f.idx < Len(f.next_list)
         THEN LET child == f.next_list[NextIndex(f.next_list, f.idx)]
                  started == [s EXCEPT ![Len(s)] = [@ EXCEPT !.idx = f.idx + 1]]
              IN IF child \in served THEN Unwind_no_revisit(started)
                                     ELSE Append(started, Frame(child))
         ELSE Unwind_no_revisit(Pop(s))

RECURSIVE Unwind_same_child(_)
\* a mutant of Unwind: the loop over the children does not advance
Unwind_same_child(s) ==
    IF s = <<>> THEN <<>>
    ELSE LET f == s[Len(s)] IN
         IF f.idx < Len(f.next_list)
         THEN Append(s, Frame(f.next_list[NextIndex(f.next_list, f.idx)]))
         ELSE Unwind_same_child(Pop(s))

RECURSIVE Unwind(_)
\* The generators once the innermost loop (line 85) is asked for its next
\* child: a frame with children left starts the generator of the next one, a
\* frame with none left is exhausted and the enclosing loop is asked in turn.
\* idx counts the children of a frame that were started.
Unwind(s) ==
    IF s = <<>> THEN <<>>
    ELSE LET f == s[Len(s)] IN
         IF f.idx < Len(f.next_list)
         THEN Append([s EXCEPT ![Len(s)] = [@ EXCEPT !.idx = f.idx + 1]],
                     Frame(f.next_list[NextIndex(f.next_list, f.idx)]))
         ELSE Unwind(Pop(s))

\* a mutant of Yielded: the secret found is kept back, not handed out
Yielded_deferred(secrets, secret) == secrets

\* get_next_secret, line 69: the secrets the consumer holds after the yield
Yielded(secrets, secret) == Append(secrets, secret)

(***************************************************************************)
(* get_next_secret, lines 63-88: normalize the response and classify it.   *)
(* A leaf yields its secret; a node with no secret and no (or an empty)    *)
(* `next` raises; a branch loops over its children, first child first.     *)
(***************************************************************************)
GetNextSecret ==
    /\ pc = "classify"
    /\ response_data' = ResponseData(response)
    /\ LET kind == Classify(response_data') IN
         \/ /\ kind = "leaf"
            /\ out' = Yielded(out, dict_item(response_data', K_secret).str)
            /\ pc' = "yielded"
            /\ UNCHANGED <<stack, err>>
         \/ /\ kind = "malformed"
            /\ err' = "MissingNextKey"
            /\ pc' = "raised"
            /\ UNCHANGED <<stack, out>>
         \/ /\ kind = "branch"
            /\ stack' = Unwind([stack EXCEPT ![Len(stack)] =
                                  [@ EXCEPT !.next_list =
                                      dict_get(response_data', K_next).list]])
            /\ pc' = IF stack' = <<>> THEN "done" ELSE "request"
            /\ UNCHANGED <<out, err>>
    /\ UNCHANGED <<tree, served, headers, is_retry, response, outer_response,
                   stdout, exit_status, sent, failures>>

\* a mutant of Resume: the resumed generator starts over with empty headers
Resume_resets_headers ==
    /\ pc = "yielded"
    /\ stack' = Unwind(Pop(stack))
    /\ pc' = IF stack' = <<>> THEN "done" ELSE "request"
    /\ headers' = <<>>
    /\ UNCHANGED <<tree, served, is_retry, response, outer_response,
                   response_data, out, stdout, exit_status, err, sent, failures>>

(***************************************************************************)
(* get_next_secret resumed after its yield (line 69): the leaf's generator *)
(* is exhausted and the enclosing loops go on.                             *)
(***************************************************************************)
Resume ==
    /\ pc = "yielded"
    /\ stack' = Unwind(Pop(stack))
    /\ pc' = IF stack' = <<>> THEN "done" ELSE "request"
    /\ UNCHANGED <<tree, served, headers, is_retry, response, outer_response,
                   response_data, out, stdout, exit_status, err, sent, failures>>

(***************************************************************************)
(* get_next_secret, line 87: the generator of a child nested deeper than   *)
(* the interpreter allows does not get to its request; the interpreter     *)
(* raises RecursionError, which is an Exception and reaches run().         *)
(***************************************************************************)
RecursionLimitReached ==
    /\ pc = "request"
    /\ DepthExceeded(stack)
    /\ err' = "RecursionError"
    /\ pc' = "raised"
    /\ UNCHANGED <<tree, served, headers, stack, is_retry, response, outer_response,
                   response_data, out, stdout, exit_status, sent, failures>>

RECURSIVE join(_)
\* "".join(secrets)
join(secrets) == IF secrets = <<>> THEN "" ELSE Head(secrets) \o join(Tail(secrets))

\* a mutant of Printed: run() prints what was collected also when it fails
Printed_partial(status, secrets) == join(secrets)

\* run, lines 208-211: the secrets the process prints, by exit status
Printed(status, secrets) == IF status = 0 THEN join(secrets) ELSE ""

(***************************************************************************)
(* run, line 209: the generator is exhausted, parser.exit(0, joined).      *)
(***************************************************************************)
RunExit ==
    /\ pc = "done"
    /\ exit_status' = 0
    /\ stdout' = Printed(0, out)
    /\ pc' = "exited"
    /\ UNCHANGED <<tree, served, headers, stack, is_retry, response, outer_response,
                   response_data, out, err, sent, failures>>

(***************************************************************************)
(* run, lines 210-211: an exception reached run(), parser.error(error).    *)
(***************************************************************************)
RunError ==
    /\ pc = "raised"
    /\ exit_status' = 2
    /\ stdout' = Printed(2, out)
    /\ pc' = "exited"
    /\ UNCHANGED <<tree, served, headers, stack, is_retry, response, outer_response,
                   response_data, out, err, sent, failures>>

Next ==
    \/ RequestNext
    \/ RaiseForStatus
    \/ GetSession
    \/ GetNextSecret
    \/ Resume
    \/ RecursionLimitReached
    \/ RunExit
    \/ RunError

Spec == Init /\ [][Next]_vars

\* The program is one thread that runs until the process exits, and every
\* call of requests.get returns or raises: a step that can be taken is taken.
FairSpec == Spec /\ WF_vars(Next)

(***************************************************************************)
(* The tree as the specification reads it, independent of the traversal.   *)
(***************************************************************************)
\* a leaf holds a secret and no children
IsLeafNode(body) == dict_has(body, K_secret) /\ ~dict_has(body, K_next)

\* a branch holds no secret and a non-empty list of children
IsBranchNode(body) ==
    /\ ~dict_has(body, K_secret)
    /\ dict_has(body, K_next)
    /\ dict_item(body, K_next).list # <<>>

\* the path of a node request
PathOf(req) == req.url[2]

IsNodeRequest(req) == req.url # create_url("get-session")

RECURSIVE Concat(_)
Concat(seqs) == IF seqs = <<>> THEN <<>> ELSE Head(seqs) \o Concat(Tail(seqs))

RECURSIVE DepthFirstSecrets(_, _)
\* the secrets of the leaves under path p in depth-first, left-to-right
\* order; a node that holds a secret counts as a leaf; fuel bounds the depth
DepthFirstSecrets(p, fuel) ==
    IF fuel = 0 THEN <<>>
    ELSE IF dict_has(tree[p], K_secret) THEN <<dict_item(tree[p], K_secret).str>>
    ELSE IF ~dict_has(tree[p], K_next) THEN <<>>
    ELSE LET l == dict_item(tree[p], K_next).list IN
         Concat([i \in 1..Len(l) |-> DepthFirstSecrets(l[i], fuel - 1)])

\* every object served is a leaf or a branch
WellFormedTree == \A p \in served : IsLeafNode(tree[p]) \/ IsBranchNode(tree[p])

\* the requests to leaves that were answered with the leaf's object
LeafVisits ==
    {i \in 1..Len(sent) : IsNodeRequest(sent[i]) /\ PathOf(sent[i]) \in served
                          /\ IsLeafNode(tree[PathOf(sent[i])])}

(***************************************************************************)
(* C1.  On a tree of leaves and non-empty branches, with every request     *)
(* answered successfully, the exhausted generator has yielded one secret   *)
(* per leaf visit, and the secrets are those of the leaves in depth-first, *)
(* left-to-right order.                                                    *)
(***************************************************************************)
C1_DepthFirstOrder ==
    (pc = "done" /\ failures = 0 /\ WellFormedTree)
        => /\ out = DepthFirstSecrets("start", MaxRequests)
           /\ Len(out) = Cardinality(LeafVisits)

\* the tree start -> [a, b], a -> [c], with leaves b and c, was walked
C1_Witness ==
    /\ pc = "done" /\ failures = 0 /\ WellFormedTree
    /\ out = <<"C", "B">>
    /\ dict_get(tree["start"], K_next).list = <<"a", "b">>

\* the running request_next call is the first attempt and holds a failure
FirstAttemptFailed == pc = "status" /\ ~is_retry /\ response.status = "failure"

\* the running request_next call is the retry and holds a failure
RetryFailed == pc = "status" /\ is_retry /\ response.status = "failure"

GetSessionRequest == [url |-> create_url("get-session"), headers |-> <<>>]

(***************************************************************************)
(* C2.  A first attempt that fails with an `error` field in the body goes  *)
(* on to one get-session request and one retry of the same path; a retry   *)
(* that fails ends in SessionRefreshFailure, and nothing is requested      *)
(* after it.                                                               *)
(***************************************************************************)
C2_RefreshOnErrorField ==
    /\ [][(FirstAttemptFailed /\ dict_has(response.json, K_error))
             => (pc' = "refresh")]_vars
    /\ [][(pc = "refresh" /\ pc' = "request")
             => (sent' = Append(sent, GetSessionRequest) /\ is_retry'
                 /\ stack' = stack)]_vars
    /\ [][RetryFailed
             => (pc' = "raised" /\ err' = "SessionRefreshFailure"
                 /\ sent' = sent)]_vars
    /\ [][(pc \in {"raised", "exited"}) => (sent' = sent)]_vars

(***************************************************************************)
(* C3.  A first attempt that fails without an `error` field in the body    *)
(* ends in MalformedErrorResponse, with no request sent and the headers    *)
(* as they were.                                                           *)
(***************************************************************************)
C3_MalformedErrorResponse ==
    [][(FirstAttemptFailed /\ ~dict_has(response.json, K_error))
          => (pc' = "raised" /\ err' = "MalformedErrorResponse"
              /\ sent' = sent /\ headers' = headers)]_vars

(***************************************************************************)
(* C7.  A first attempt that fails with a body whose error key is written  *)
(* in any letter case, with a value, goes on to the refresh.               *)
(***************************************************************************)
C7_ErrorKeyAnyCase ==
    [][(FirstAttemptFailed
          /\ Truthy(dict_get(normalize_keys(response.json), K_error)))
          => (pc' = "refresh")]_vars

\* the object at the path of the innermost generator lacks a secret and
\* children: it has no `secret`, and its `next` is absent or empty
MalformedNode(body) ==
    /\ ~dict_has(body, K_secret)
    /\ \/ ~dict_has(body, K_next)
       \/ dict_item(body, K_next).list = <<>>

(***************************************************************************)
(* C4.  Classifying the response of a node that has no `secret` and whose  *)
(* `next` is absent or empty raises MissingNextKey, and no request is sent *)
(* from then on.                                                           *)
(***************************************************************************)
C4_MissingNextKey ==
    /\ [][(pc = "classify" /\ MalformedNode(tree[Top.path]))
             => (pc' = "raised" /\ err' = "MissingNextKey" /\ sent' = sent)]_vars
    /\ [][(err = "MissingNextKey") => (sent' = sent /\ err' = err)]_vars

\* MissingNextKey was raised for a node whose `next` is the empty list
C4_Witness ==
    /\ pc = "raised" /\ err = "MissingNextKey"
    /\ tree[Top.path] = << <<K_next, List(<<>>)>> >>

(***************************************************************************)
(* C5.  A failure ends the traversal: once one is raised nothing more is   *)
(* requested or yielded, and the process that has exited has printed       *)
(* either every secret of the tree (exit status 0) or none.                *)
(***************************************************************************)
C5_AllOrNothing ==
    /\ [](err # "none" => pc \in {"raised", "exited"})
    /\ [][(err # "none") => (sent' = sent /\ out' = out /\ err' = err)]_vars
    /\ [](pc = "exited" =>
            \/ /\ exit_status = 0 /\ err = "none"
               /\ stdout = join(DepthFirstSecrets("start", MaxRequests))
            \/ /\ exit_status # 0 /\ err # "none"
               /\ stdout = "")

\* the run failed after a leaf had yielded its secret, and printed none
C5_Witness ==
    /\ pc = "exited" /\ exit_status = 2 /\ err = "MissingNextKey"
    /\ out # <<>> /\ stdout = ""

(***************************************************************************)
(* C6.  A run whose failed requests were all recovered by a refresh and a  *)
(* retry ends as the run without failures does: exhausted with the         *)
(* depth-first secrets of the tree, or with MissingNextKey at a node       *)
(* whose object is malformed.                                              *)
(***************************************************************************)
C6_TransparentRecovery ==
    /\ (pc = "done" /\ Refreshes > 0)
          => out = DepthFirstSecrets("start", MaxRequests)
    /\ (err = "MissingNextKey" /\ Refreshes > 0)
          => (Top.path \in served /\ MalformedNode(tree[Top.path]))

\* two nodes failed once each, were retried, and the run is complete
C6_Witness ==
    /\ pc = "done" /\ Refreshes = 2 /\ failures = 2
    /\ Len(out) = 1 /\ Cardinality(served) = 2

(***************************************************************************)
(* C8.  Whatever the letter case of the keys in a successful response, the *)
(* traversal does what the node's object asks for: a node with a secret    *)
(* yields it and starts no child, a node with neither secret nor children  *)
(* raises, a node with children starts its first child.                    *)
(***************************************************************************)
C8_CaseInsensitiveKeys ==
    [][(pc = "classify") =>
          IF dict_has(tree[Top.path], K_secret)
          THEN (out' = Append(out, dict_item(tree[Top.path], K_secret).str)
                /\ stack' = stack /\ err' = err)
          ELSE IF MalformedNode(tree[Top.path])
          THEN (err' = "MissingNextKey" /\ out' = out /\ stack' = stack)
          ELSE (out' = out /\ err' = err
                /\ Len(stack') = Len(stack) + 1
                /\ stack'[Len(stack')].path = dict_item(tree[Top.path], K_next).list[1])]_vars

\* a response with the key SECRET was classified as a leaf
C8_Witness ==
    /\ pc = "yielded"
    /\ dict_has(response.json, restyle_key(K_secret, "UPPER"))
    /\ out # <<>>

\* the headers the server's n-th credential makes
SessionHeaders(n) ==
    IF n = 0 THEN <<>> ELSE << <<"Session", Str(SessionTokens[n])>> >>

\* how many get-session requests precede request i
RefreshesBefore(i) ==
    Cardinality({j \in 1..(i - 1) : ~IsNodeRequest(sent[j])})

(***************************************************************************)
(* C10.  Every node request carries the credential of the latest           *)
(* get-session answer before it, and no Session header when there was     *)
(* none; a get-session request carries no header.                          *)
(***************************************************************************)
C10_CurrentCredential ==
    \A i \in 1..Len(sent) :
        IF IsNodeRequest(sent[i])
        THEN sent[i].headers = SessionHeaders(RefreshesBefore(i))
        ELSE sent[i].headers = <<>>

\* requests went out with no credential, with the first and with the second
C10_Witness ==
    /\ Len(sent) = 6
    /\ sent[1].headers = <<>>
    /\ sent[3].headers = SessionHeaders(1)
    /\ sent[4].headers = SessionHeaders(1)
    /\ sent[6].headers = SessionHeaders(2)

(***************************************************************************)
(* normalize_keys on its own: any mapping with string keys, colliding keys *)
(* included, is normalized, and its result is normalized again.            *)
(***************************************************************************)
MappingChars == {"a", "A", "_"}

MappingKeys == SeqsUpTo(MappingChars, MaxKeyLen) \ {<<>>}

MappingValues == {Str("1"), Str("2")}

\* the mappings handed to normalize_keys: no key twice
Mappings ==
    {d \in SeqsUpTo(MappingKeys \X MappingValues, MaxItems) :
        \A i, j \in 1..Len(d) : d[i][1] = d[j][1] => i = j}

InitNormalize ==
    /\ tree = [p \in Paths |-> <<>>]
    /\ served = {}
    /\ headers = <<>>
    /\ stack = <<>>
    /\ pc = "normalize"
    /\ is_retry = FALSE
    /\ response \in {[status |-> "ok", json |-> d] : d \in Mappings}
    /\ outer_response = NoResponse
    /\ response_data = <<>>
    /\ out = <<>>
    /\ stdout = ""
    /\ exit_status = NotExited
    /\ err = "none"
    /\ sent = <<>>
    /\ failures = 0

\* response_data = normalize_keys(response.json()), line 63
NormalizeKeys ==
    /\ pc = "normalize"
    /\ response_data' = normalize_keys(response.json)
    /\ pc' = "normalized"
    /\ UNCHANGED <<tree, served, headers, stack, is_retry, response, outer_response,
                   out, stdout, exit_status, err, sent, failures>>

\* normalize_keys applied to its own result
NormalizeAgain ==
    /\ pc = "normalized"
    /\ response_data' = normalize_keys(response_data)
    /\ pc' = "renormalized"
    /\ UNCHANGED <<tree, served, headers, stack, is_retry, response, outer_response,
                   out, stdout, exit_status, err, sent, failures>>

NextNormalize == NormalizeKeys \/ NormalizeAgain

SpecNormalize == InitNormalize /\ [][NextNormalize]_vars

IsLowerCase(k) == \A i \in 1..Len(k) : k[i] \notin UpperChars

\* no two keys of d are the same after lower-casing
NoCollision(d) ==
    \A i, j \in 1..Len(d) : str_lower(d[i][1]) = str_lower(d[j][1]) => i = j

(***************************************************************************)
(* C9.  Every key of normalize_keys(d) is lower-case; when no two keys of  *)
(* d collide after lower-casing, the result has d's items, each value      *)
(* under its lower-cased key; normalizing the result again returns it      *)
(* unchanged.                                                              *)
(***************************************************************************)
C9_NormalizeKeys ==
    /\ [](pc \in {"normalized", "renormalized"} =>
            /\ \A k \in dict_keys(response_data) : IsLowerCase(k)
            /\ NoCollision(response.json) =>
                  /\ Len(response_data) = Len(response.json)
                  /\ \A i \in 1..Len(response.json) :
                        /\ dict_has(response_data, str_lower(response.json[i][1]))
                        /\ dict_item(response_data, str_lower(response.json[i][1]))
                              = response.json[i][2])
    /\ [][(pc = "normalized") => (response_data' = response_data)]_vars

\* a mapping with a key in mixed case was normalized, and its result again
C9_Witness ==
    /\ pc = "renormalized"
    /\ Len(response.json) = 2
    /\ dict_has(response.json, <<"a", "A">>)
    /\ dict_item(response.json, <<"a", "A">>) = Str("2")
    /\ dict_has(response_data, <<"a", "a">>)
    /\ dict_item(response_data, <<"a", "a">>) = Str("2")

\* the error kinds the traversal is documented to fail with
DocumentedErrors ==
    {"MissingNextKey", "SessionRefreshFailure", "MalformedErrorResponse",
     "TransportFailure"}

(***************************************************************************)
(* C11.  While no credential exists no step needs its value: a run that    *)
(* fails before the first refresh fails with one of the documented error   *)
(* kinds, never with the KeyError of reading the missing header.           *)
(***************************************************************************)
C11_NeverReadBeforeCreated ==
    (pc \in {"raised", "exited"} /\ err # "none" /\ ~dict_has(headers, "Session"))
        => err \in DocumentedErrors

\* every get-session request stands between two node requests for one path,
\* and the node request before it is no retry itself
OneRefreshPerFetch ==
    \A i \in 1..Len(sent) :
        ~IsNodeRequest(sent[i]) =>
            /\ i > 1
            /\ IsNodeRequest(sent[i - 1])
            /\ (i > 2 => IsNodeRequest(sent[i - 2]))
            /\ (i < Len(sent) =>
                  (IsNodeRequest(sent[i + 1])
                   /\ PathOf(sent[i + 1]) = PathOf(sent[i - 1])))

(***************************************************************************)
(* C12.  One fetch of a node sends the node request, and at most one       *)
(* get-session request followed by one more request for the same node: a   *)
(* node request is the retry exactly when it follows a get-session         *)
(* request, the retry's answer ends the fetch in success or in a fatal     *)
(* error, and no refresh is started while retrying.                        *)
(***************************************************************************)
C12_BoundedFetch ==
    /\ [](OneRefreshPerFetch)
    /\ [](pc = "refresh" => ~is_retry)
    /\ [][(pc = "request" /\ sent' # sent)
             => (is_retry <=> (sent # <<>> /\ ~IsNodeRequest(sent[Len(sent)])))]_vars
    /\ [][(pc = "status" /\ is_retry) => (pc' \in {"classify", "raised"})]_vars

\* a fetch ended in success after two node requests and one refresh
C12_Witness ==
    /\ pc = "classify" /\ response.status = "ok"
    /\ Len(sent) = 3 /\ Refreshes = 1
    /\ PathOf(sent[1]) = PathOf(sent[3])

(***************************************************************************)
(* C13.  A retry answered with a failure status ends in                    *)
(* SessionRefreshFailure, with or without an `error` field in its body:    *)
(* the retry guard is evaluated before the error-field guard, so           *)
(* MalformedErrorResponse is raised by a first attempt only.               *)
(***************************************************************************)
C13_RetryGuardFirst ==
    /\ [][(RetryFailed /\ dict_has(response.json, K_error))
             => (pc' = "raised" /\ err' = "SessionRefreshFailure")]_vars
    /\ [][(RetryFailed /\ ~dict_has(response.json, K_error))
             => (pc' = "raised" /\ err' = "SessionRefreshFailure")]_vars
    /\ [][(err = "none" /\ err' = "MalformedErrorResponse") => ~is_retry]_vars

\* a retry answered with a failure and the body {} ended in SessionRefreshFailure
C13_Witness ==
    /\ pc = "raised" /\ err = "SessionRefreshFailure"
    /\ is_retry /\ response.status = "failure" /\ response.json = <<>>

RECURSIVE FirstAttemptsUpTo(_)
\* the paths of the node requests among the first n that are no retries, in
\* the order sent: one per fetch of a node
FirstAttemptsUpTo(n) ==
    IF n = 0 THEN <<>>
    ELSE IF IsNodeRequest(sent[n]) /\ (n = 1 \/ IsNodeRequest(sent[n - 1]))
         THEN Append(FirstAttemptsUpTo(n - 1), PathOf(sent[n]))
         ELSE FirstAttemptsUpTo(n - 1)

FirstAttemptPaths == FirstAttemptsUpTo(Len(sent))

\* the children the object served at path p asks to visit; none for a node
\* with a secret, for a node not served yet and for one without `next`
ChildrenOf(p) ==
    IF p \in served /\ ~dict_has(tree[p], K_secret) /\ dict_has(tree[p], K_next)
    THEN dict_item(tree[p], K_next).list
    ELSE <<>>

RECURSIVE Preorder(_, _)
\* the first n nodes of the depth-first, left-to-right walk that has the
\* paths of todo still to visit; a path is walked once per occurrence
Preorder(todo, n) ==
    IF n = 0 \/ todo = <<>> THEN <<>>
    ELSE <<Head(todo)>> \o Preorder(ChildrenOf(Head(todo)) \o Tail(todo), n - 1)

(***************************************************************************)
(* C14.  The nodes are fetched in the order of the depth-first,            *)
(* left-to-right walk of the tree from start, a path once per occurrence:  *)
(* at every moment the fetches made are the beginning of that walk, and    *)
(* when the generator is exhausted they are the whole walk.                *)
(***************************************************************************)
C14_FetchOrder ==
    /\ FirstAttemptPaths = Preorder(<<"start">>, Len(FirstAttemptPaths))
    /\ pc = "done" =>
          Len(Preorder(<<"start">>, Len(FirstAttemptPaths) + 1))
             = Len(FirstAttemptPaths)

\* start -> [a, a], a -> [c]: a and c were fetched twice each
C14_Witness ==
    /\ pc = "done"
    /\ FirstAttemptPaths = <<"start", "a", "c", "a", "c">>

(***************************************************************************)
(* C15.  A response with a `secret` is a leaf whatever else it holds: its  *)
(* classification yields that one secret and starts no generator, and the  *)
(* generator started after the yield is one for a child of an enclosing    *)
(* node, never one for a path of the leaf's own `next`.  Classifying a     *)
(* successful response does exactly one of three things: it yields, it     *)
(* raises, or it starts a child.                                           *)
(***************************************************************************)
C15_SecretIsLeaf ==
    /\ [][(pc = "classify" /\ dict_has(tree[Top.path], K_secret))
             => (out' = Append(out, dict_item(tree[Top.path], K_secret).str)
                 /\ pc' = "yielded" /\ stack' = stack)]_vars
    /\ [][(pc = "yielded")
             => (out' = out /\ Len(stack') <= Len(stack)
                 /\ (stack' # <<>> =>
                       \E j \in 1..Len(stack[Len(stack') - 1].next_list) :
                          stack[Len(stack') - 1].next_list[j]
                             = stack'[Len(stack')].path))]_vars
    /\ [][(pc = "classify")
             => (\/ (out' # out /\ err' = err /\ stack' = stack)
                 \/ (out' = out /\ err' # err /\ stack' = stack)
                 \/ (out' = out /\ err' = err /\ stack' # stack))]_vars

\* a node with a secret and a `next` list has yielded, and the run went on
\* to the end without a request for it
C15_Witness ==
    /\ pc = "done" /\ Len(out) = 1 /\ Len(sent) = 1
    /\ dict_has(tree["start"], K_secret) /\ dict_has(tree["start"], K_next)

(***************************************************************************)
(* C16.  The headers change in the refresh step only, when the answer of   *)
(* get-session is stored: a first attempt answered with success, a step    *)
(* that raises, and every step of the traversal leave them as they were.   *)
(***************************************************************************)
C16_CredentialFrame ==
    /\ [][(headers' # headers)
             => (pc = "refresh" /\ pc' = "request"
                 /\ headers' = SessionHeaders(Refreshes + 1))]_vars
    /\ [][(pc = "status" /\ ~is_retry /\ response.status = "ok")
             => (headers' = headers)]_vars
    /\ [][(pc' = "raised") => (headers' = headers)]_vars
    /\ [][(pc \in {"classify", "yielded", "done", "raised"})
             => (headers' = headers)]_vars

\* the credential stored while fetching start is still there, unchanged,
\* after two more nodes were fetched and the generator is exhausted
C16_Witness ==
    /\ pc = "done" /\ Refreshes = 1 /\ headers = SessionHeaders(1)
    /\ ~IsNodeRequest(sent[2]) /\ Len(out) = 2

RECURSIVE SecretsAlong(_)
\* the secrets of the nodes with a secret among the paths, in their order
SecretsAlong(paths) ==
    IF paths = <<>> THEN <<>>
    ELSE (IF Head(paths) \in served /\ dict_has(tree[Head(paths)], K_secret)
          THEN <<dict_item(tree[Head(paths)], K_secret).str>>
          ELSE <<>>) \o SecretsAlong(Tail(paths))

\* the fetches before the latest one
EarlierFetches == SubSeq(FirstAttemptPaths, 1, Len(FirstAttemptPaths) - 1)

(***************************************************************************)
(* C17.  The secrets are handed out as they are found: when the fetch of   *)
(* a node is about to start, the secrets of all leaves fetched before it   *)
(* have been yielded, and when a fetch or a classification has failed, the *)
(* secrets of the leaves fetched earlier have been yielded already.        *)
(***************************************************************************)
C17_LazySecrets ==
    /\ (pc = "request" /\ ~is_retry) => out = SecretsAlong(FirstAttemptPaths)
    /\ (pc \in {"raised", "exited"} /\ err \in {"MissingNextKey", "RecursionError"})
          => out = SecretsAlong(FirstAttemptPaths)
    /\ (pc \in {"raised", "exited"}
          /\ err \notin {"none", "MissingNextKey", "RecursionError"})
          => out = SecretsAlong(EarlierFetches)

\* the leaf a had yielded its secret when the fetch of the next node failed
C17_Witness ==
    /\ pc = "raised" /\ err = "SessionRefreshFailure"
    /\ out = <<"A">> /\ Len(FirstAttemptPaths) = 3

\* the fetches made are the beginning of the depth-first walk, each with at
\* most three requests, and the bound on the requests explored stops the run
CutShort ==
    /\ Len(sent) = MaxRequests
    /\ pc \in {"request", "refresh"}
    /\ FirstAttemptPaths = Preorder(<<"start">>, Len(FirstAttemptPaths))

(***************************************************************************)
(* C18.  Whatever the server answers, the run comes to its end, unless the *)
(* bound on the requests explored cuts it in the middle of the walk: no    *)
(* fetch takes more than three requests, and the process that has exited   *)
(* has either walked the whole tree and got the secret of every leaf       *)
(* visited, or failed with a fatal error.                                  *)
(***************************************************************************)
C18_Terminates ==
    /\ <>(pc = "exited" \/ CutShort)
    /\ [](Len(sent) <= 3 * Len(FirstAttemptPaths))
    /\ [](pc = "exited" =>
            \/ /\ err = "none"
               /\ out = SecretsAlong(FirstAttemptPaths)
               /\ Len(Preorder(<<"start">>, Len(FirstAttemptPaths) + 1))
                     = Len(FirstAttemptPaths)
            \/ err \in DocumentedErrors \cup {"KeyError", "RecursionError"})

\* a tree of four nodes, each fetched once, one of the fetches recovered by
\* a refresh, was walked to its end
C18_Witness ==
    /\ pc = "exited" /\ exit_status = 0
    /\ Len(FirstAttemptPaths) = 4 /\ Cardinality(served) = 4
    /\ failures = 1 /\ Refreshes = 1

\* a generator runs for a path that an enclosing generator is running for:
\* the traversal has followed a `next` entry back to an ancestor
CycleOnStack ==
    \E i, j \in 1..Len(stack) : i < j /\ stack[i].path = stack[j].path

(***************************************************************************)
(* C19, as claimed.  Once the traversal has followed a `next` entry back   *)
(* to an ancestor, with every request answered successfully, it reaches    *)
(* neither the completed state nor a fatal one.                            *)
(***************************************************************************)
C19_NeverTerminates ==
    (CycleOnStack /\ failures = 0) => pc \notin {"done", "raised", "exited"}

(***************************************************************************)
(* C19, amended.  Once the traversal has followed a `next` entry back to   *)
(* an ancestor, with every request answered successfully, it never         *)
(* completes: the generators of the cycle stay nested, nodes fetched       *)
(* before are fetched again, each round deeper, and when the nesting       *)
(* exceeds the interpreter's recursion limit the run ends with the fatal   *)
(* RecursionError, exit status 2.                                          *)
(***************************************************************************)
C19_CycleEndsInRecursionError ==
    /\ []((CycleOnStack /\ failures = 0) =>
            /\ pc # "done"
            /\ err \in {"none", "RecursionError"}
            /\ pc = "exited" => exit_status = 2
            /\ pc = "request" => Top.path \in served)
    /\ [][(CycleOnStack /\ failures' = 0) => CycleOnStack']_vars
    /\ [](Len(stack) <= RecursionLimit + 1)
    /\ [](err = "RecursionError" => Len(stack) = RecursionLimit + 1)

\* a run on a cycle, every request answered successfully, has ended with
\* RecursionError
C19_Witness ==
    /\ pc = "exited" /\ exit_status = 2 /\ err = "RecursionError"
    /\ failures = 0 /\ CycleOnStack /\ stdout = ""

\* how many node requests were sent
NodeRequests == Cardinality({i \in 1..Len(sent) : IsNodeRequest(sent[i])})

\* the request just answered with a failure is the first one of its fetch:
\* no get-session request stands before it
FreshFetchFailed ==
    /\ pc = "status" /\ response.status = "failure"
    /\ (Len(sent) = 1 \/ IsNodeRequest(sent[Len(sent) - 1]))

(***************************************************************************)
(* C20.  The one retry is a budget of each fetch, not of the run: there    *)
(* are no more refreshes than fetches and no more than two node requests   *)
(* per fetch, and the first request of a fetch that fails with an error    *)
(* message goes on to a refresh however many refreshes earlier fetches     *)
(* have made.                                                              *)
(***************************************************************************)
C20_RetryBudgetPerFetch ==
    /\ [](Refreshes <= Len(FirstAttemptPaths))
    /\ [](NodeRequests <= 2 * Len(FirstAttemptPaths))
    /\ [][(FreshFetchFailed /\ Truthy(dict_get(response.json, K_error)))
             => (pc' = "refresh")]_vars
    /\ [][(pc \in {"classify", "yielded"} /\ pc' = "request") => ~is_retry']_vars

\* two fetches, of different nodes, have made a refresh each
C20_Witness ==
    /\ pc = "classify" /\ Refreshes = 2 /\ Len(sent) = 6
    /\ ~IsNodeRequest(sent[2]) /\ ~IsNodeRequest(sent[5])
    /\ PathOf(sent[1]) # PathOf(sent[4])
    /\ headers = SessionHeaders(2)

====
